---- MODULE Spec2Model ----
(***************************************************************************)
(* Model of the dashit news pipeline: src/scraper/manager.py (NewsManager) *)
(* and its callers in src/api/routers and src/api/scraper/cli.py.          *)
(*                                                                         *)
(* Text is modelled as a sequence of code points, so that concatenation,   *)
(* prefix tests and SQLite's byte-wise TEXT comparison are computed, not   *)
(* assumed.  A comment after each literal gives the text it stands for.    *)
(***************************************************************************)
EXTENDS Integers, Sequences, FiniteSets, TLC

\* ------------------------------------------------------------------------
\* Bounds of the model
\* ------------------------------------------------------------------------
\* last value of the wall clock (the clock counts days of January 2025)
MaxClock == 1
\* the store holds at most this many rows
MaxRows == 3
\* largest explicit limit passed to the selector / publish batch
MaxLimit == 2
\* number of times the UPDATE after a submission is lost
MaxCrashes == 1
\* submissions of one row through POST /reddit/post/{id}
MaxSent == 2
\* rows in the store up to which POST /articles adds one
MaxCreated == 2

\* ------------------------------------------------------------------------
\* Text
\* ------------------------------------------------------------------------
\* a missing attribute, a missing mapping key, None
Absent == <<-1>>

HasPrefix(s, p) == Len(s) >= Len(p) /\ SubSeq(s, 1, Len(p)) = p

Contains(s, p) ==
  \E i \in 1..(Len(s) + 1) : i + Len(p) - 1 <= Len(s) /\ SubSeq(s, i, i + Len(p) - 1) = p

\* byte-wise comparison of two texts (SQLite BINARY collation, Python str <)
StrLess(a, b) ==
  LET m == IF Len(a) < Len(b) THEN Len(a) ELSE Len(b)
      diff == {i \in 1..m : a[i] # b[i]}
  IN  IF diff = {}
      THEN Len(a) < Len(b)
      ELSE LET i == CHOOSE j \in diff : \A k \in diff : j <= k
           IN  a[i] < b[i]

IsDigit(c) == c \in 48..57

TwoDigits(n) == <<48 + (n \div 10), 48 + (n % 10)>>

\* ------------------------------------------------------------------------
\* Wall clock and date handling
\* ------------------------------------------------------------------------
DatePrefix == <<50,48,50,53,45,48,49,45>>            \* "2025-01-"
Midnight == <<84,48,48,58,48,48,58,48,48>>           \* "T00:00:00"
UtcOffset == <<43,48,48,58,48,48>>                   \* "+00:00"
RfcTail == <<32,74,97,110,32,50,48,50,53,32,48,48,58,48,48,58,48,48,32,71,77,84>>
                                                     \* " Jan 2025 00:00:00 GMT"

\* datetime.now().isoformat() when the clock shows t: day t+1 of the month
NowIso(t) == DatePrefix \o TwoDigits(t + 1) \o Midnight

\* dateutil.parser.parse on the date texts of the model: a naive ISO
\* date-time, or an RFC 822 date ("Wed, 01 Jan 2025 00:00:00 GMT", which
\* parses to a timezone-aware value); anything else raises
DtParse(s) ==
  IF /\ Len(s) = 19
     /\ HasPrefix(s, DatePrefix)
     /\ IsDigit(s[9]) /\ IsDigit(s[10])
     /\ SubSeq(s, 11, 19) = Midnight
  THEN [ok |-> TRUE, day |-> (s[9] - 48) * 10 + (s[10] - 48), tz |-> <<>>]
  ELSE IF /\ Len(s) = 29
          /\ SubSeq(s, 4, 5) = <<44,32>>
          /\ IsDigit(s[6]) /\ IsDigit(s[7])
          /\ SubSeq(s, 8, 29) = RfcTail
  THEN [ok |-> TRUE, day |-> (s[6] - 48) * 10 + (s[7] - 48), tz |-> UtcOffset]
  ELSE [ok |-> FALSE, day |-> 0, tz |-> <<>>]

\* datetime.isoformat() of a parsed value
DtIsoformat(d) == DatePrefix \o TwoDigits(d.day) \o Midnight \o d.tz

\* ------------------------------------------------------------------------
\* Identity hash and the rss_data table
\* ------------------------------------------------------------------------
\* the digest of url and headline alone
generate_hash_undated(entry) == entry.url \o entry.headline

\* SHA-256 is taken to be collision free: the digest is represented by the
\* text it was computed from
generate_hash(entry) == entry.url \o entry.headline \o entry.published

\* AUTOINCREMENT primary key
NextId(st) == IF st = <<>> THEN 1 ELSE st[Len(st)].id + 1

\* INSERT OR REPLACE: the stored row gives way to the new one
InsertOrReplace(st, h, source, url, headline, summary, published) ==
  [store |-> Append(SelectSeq(st, LAMBDA r : r.hash # h),
                    [id |-> NextId(st), hash |-> h, source |-> source,
                     url |-> url, headline |-> headline, summary |-> summary,
                     published |-> published, posted |-> 0]),
   rowcount |-> 1]

\* a plain INSERT: the row is added whatever is stored
InsertPlain(st, h, source, url, headline, summary, published) ==
  [store |-> Append(st, [id |-> NextId(st), hash |-> h, source |-> source,
                         url |-> url, headline |-> headline,
                         summary |-> summary, published |-> published,
                         posted |-> 0]),
   rowcount |-> 1]

\* INSERT OR IGNORE INTO rss_data (hash, source, url, headline, summary,
\* published): the UNIQUE constraint on hash makes a colliding insert a
\* no-op; posted takes its DEFAULT 0.  rowcount is 1 for a new row, else 0
InsertOrIgnore(st, h, source, url, headline, summary, published) ==
  IF \E i \in 1..Len(st) : st[i].hash = h
  THEN [store |-> st, rowcount |-> 0]
  ELSE [store |-> Append(st, [id |-> NextId(st), hash |-> h, source |-> source,
                              url |-> url, headline |-> headline,
                              summary |-> summary, published |-> published,
                              posted |-> 0]),
        rowcount |-> 1]

\* ------------------------------------------------------------------------
\* Sources: keys, endpoints and what the endpoints serve
\* ------------------------------------------------------------------------
\* RSS_FEEDS, in dictionary order (the feed key is the stored source)
RSS_FEEDS == <<"wuky", "weku", "fox56", "wtvq", "lex18", "kykernel",
               "lextoday", "lexingtontimes", "kyweathercenter">>

\* the endpoints fetched by the other adapters
PageSites == <<"lexington_gov", "wkyt", "wkyt_questions", "newsapi",
               "civiclex", "central_bank", "newsdata_io", "mediastack">>

AllSites == RSS_FEEDS \o PageSites

Sites == {AllSites[i] : i \in 1..Len(AllSites)}

\* the text of a source key
Key(site) ==
  CASE site = "wuky" -> <<119,117,107,121>>
    [] site = "weku" -> <<119,101,107,117>>
    [] site = "fox56" -> <<102,111,120,53,54>>
    [] site = "wtvq" -> <<119,116,118,113>>
    [] site = "lex18" -> <<108,101,120,49,56>>
    [] site = "kykernel" -> <<107,121,107,101,114,110,101,108>>
    [] site = "lextoday" -> <<108,101,120,116,111,100,97,121>>
    [] site = "lexingtontimes" -> <<108,101,120,105,110,103,116,111,110,116,105,109,101,115>>
    [] site = "kyweathercenter" -> <<107,121,119,101,97,116,104,101,114,99,101,110,116,101,114>>
    [] site = "lexington_gov" -> <<108,101,120,105,110,103,116,111,110,95,103,111,118>>
    [] site = "wkyt" -> <<119,107,121,116>>
    [] site = "wkyt_questions" -> <<119,107,121,116,95,113,117,101,115,116,105,111,110,115>>
    [] site = "newsapi" -> <<110,101,119,115,97,112,105,95>>       \* "newsapi_"
    [] site = "civiclex" -> <<99,105,118,105,99,108,101,120>>
    [] site = "central_bank" -> <<99,101,110,116,114,97,108,95,98,97,110,107>>
    [] site = "newsdata_io" -> <<110,101,119,115,100,97,116,97,95,105,111>>
    [] site = "mediastack" -> <<109,101,100,105,97,115,116,97,99,107>>

Http == <<104,116,116,112>>                                          \* "http"

\* the address the adapter resolves relative links against
Origin(site) ==
  CASE site = "lexington_gov" ->
         <<104,116,116,112,115,58,47,47,119,119,119,46,108,101,120,105,110,103,
           116,111,110,107,121,46,103,111,118>>    \* "https://www.lexingtonky.gov"
    [] site \in {"wkyt", "wkyt_questions"} ->
         <<104,116,116,112,115,58,47,47,119,119,119,46,119,107,121,116,46,99,111,
           109>>                                   \* "https://www.wkyt.com"
    [] site = "civiclex" ->
         <<104,116,116,112,115,58,47,47,99,105,118,105,99,108,101,120,46,111,114,
           103>>                                   \* "https://civiclex.org"
    [] site = "central_bank" ->
         <<104,116,116,112,115,58,47,47,119,119,119,46,99,101,110,116,114,97,108,
           98,97,110,107,99,101,110,116,101,114,46,99,111,109>>
                                                   \* "https://www.centralbankcenter.com"
    [] OTHER -> <<>>

\* urljoin(base, href) for an absolute href and for a root-relative href
Urljoin(site, href) == IF HasPrefix(href, Http) THEN href ELSE Origin(site) \o href

\* one raw candidate as the fetch hands it to the adapter's loop
Raw(title, link, summary, published) ==
  [title |-> title, link |-> link, summary |-> summary, published |-> published,
   page |-> "ok", name |-> Absent]

WireUrl == <<104,116,116,112,115,58,47,47,119,105,114,101,46,101,120,97,109,112,
             108,101,47,99,111,117,110,99,105,108>>  \* "https://wire.example/council"
WireTitle == <<67,105,116,121,32,99,111,117,110,99,105,108,32,109,101,101,116,115>>
                                                     \* "City council meets"
WireSummary == <<67,111,117,110,99,105,108,32,115,117,109,109,97,114,121>>
                                                     \* "Council summary"
Rfc01 == <<87,101,100,44,32,48,49,32,74,97,110,32,50,48,50,53,32,48,48,58,48,48,
           58,48,48,32,71,77,84>>                    \* "Wed, 01 Jan 2025 00:00:00 GMT"
Rfc03 == <<70,114,105,44,32,48,51,32,74,97,110,32,50,48,50,53,32,48,48,58,48,48,
           58,48,48,32,71,77,84>>                    \* "Fri, 03 Jan 2025 00:00:00 GMT"
Soon == <<115,111,111,110>>                          \* "soon"
LocalTitle == <<76,111,99,97,108,32,115,116,111,114,121,32,102,114,111,109,32>>
                                                     \* "Local story from "
HttpsScheme == <<104,116,116,112,115,58,47,47>>      \* "https://"
ExamplePath == <<46,101,120,97,109,112,108,101,47,97>>  \* ".example/a"

\* the article every feed has of its own
OwnEntry(site, published) ==
  Raw(LocalTitle \o Key(site), HttpsScheme \o Key(site) \o ExamplePath, Absent, published)

\* what each endpoint serves while it is live (fetched, parsed, in page order)
ItemsAt(site) ==
  CASE site = "wuky" ->
         \* a syndicated story and an entry without a title
         << Raw(WireTitle, WireUrl, WireSummary, Rfc01),
            Raw(Absent, WireUrl, WireSummary, Rfc01) >>
    [] site = "weku" ->
         \* the same syndicated story, then an article of its own
         << Raw(WireTitle, WireUrl, WireSummary, Rfc01),
            OwnEntry(site, Rfc03) >>
    [] site = "fox56" -> << OwnEntry(site, Soon) >>        \* a date that does not parse
    [] site = "wtvq" -> << OwnEntry(site, Absent) >>       \* no date
    [] site \in {"lex18", "kykernel", "lextoday", "lexingtontimes", "kyweathercenter"} ->
         << OwnEntry(site, Rfc03) >>
    [] site = "lexington_gov" ->
         << Raw(<<82,111,97,100,32,99,108,111,115,117,114,101,115,32,97,110,110,111,
                  117,110,99,101,100>>,              \* "Road closures announced"
                <<47,110,101,119,115,47,114,111,97,100,115>>,   \* "/news/roads"
                <<82,111,97,100,115>>,               \* "Roads"
                <<50,48,50,53,45,48,49,45,48,50,84,48,57,58,51,48,58,48,48,90>>),
                                                     \* "2025-01-02T09:30:00Z"
            \* a row without a description block
            Raw(<<82,111,97,100,32,99,108,111,115,117,114,101,115,32,97,110,110,111,
                  117,110,99,101,100>>,
                <<47,110,101,119,115,47,114,111,97,100,115>>, Absent, Soon) >>
    [] site = "wkyt" ->
         << Raw(<<83,104,111,111,116,105,110,103,32,114,101,112,111,114,116,101,100,
                  32,100,111,119,110,116,111,119,110>>,  \* "Shooting reported downtown"
                <<47,115,104,111,111,116,105,110,103>>, Absent, Absent),  \* "/shooting"
            \* a link text that is too short, and an anchor without href
            Raw(<<87,101,97,116,104,101,114>>, <<47,115,104,111,111,116,105,110,103>>,
                Absent, Absent),                     \* "Weather"
            Raw(<<83,104,111,111,116,105,110,103,32,114,101,112,111,114,116,101,100,
                  32,100,111,119,110,116,111,119,110>>, Absent, Absent, Absent) >>
    [] site = "wkyt_questions" ->
         << Raw(<<87,104,121,32,105,115,32,116,104,101,32,115,107,121,32,98,108,117,
                  101>>,                             \* "Why is the sky blue"
                <<47,113,117,101,115,116,105,111,110>>, Absent, Absent),  \* "/question"
            \* an article page that cannot be fetched
            [ Raw(<<87,104,121,32,105,115,32,116,104,101,32,115,107,121,32,98,108,117,
                    101>>, <<47,113,117,101,115,116,105,111,110>>, Absent, Absent)
              EXCEPT !.page = "fail" ] >>
    [] site = "newsapi" ->
         << [ Raw(<<76,101,120,105,110,103,116,111,110,32,109,97,107,101,115,32,104,
                    101,97,100,108,105,110,101,115>>,  \* "Lexington makes headlines"
                  <<104,116,116,112,115,58,47,47,99,110,110,46,99,111,109,47,108,101,
                    120>>,                             \* "https://cnn.com/lex"
                  <<>>,
                  <<50,48,50,53,45,48,49,45,48,49,84,49,50,58,48,48,58,48,48,90>>)
                                                       \* "2025-01-01T12:00:00Z"
              EXCEPT !.name = <<67,78,78>> ],          \* "CNN"
            \* an article without a url
            Raw(<<76,101,120,105,110,103,116,111,110,32,109,97,107,101,115,32,104,
                  101,97,100,108,105,110,101,115>>, <<>>, <<>>, Absent) >>
    [] site = "civiclex" ->
         << Raw(<<66,117,100,103,101,116,32,104,101,97,114,105,110,103,32,115,99,104,
                  101,100,117,108,101,100>>,         \* "Budget hearing scheduled"
                <<47,110,101,119,115,47,98,117,100,103,101,116>>, Absent, Absent),
                                                     \* "/news/budget"
            \* a link that is not a news link
            Raw(<<65,98,111,117,116,32,67,105,118,105,99,76,101,120,32,104,101,114,
                  101>>,                             \* "About CivicLex here"
                <<47,97,98,111,117,116>>, Absent, Absent) >>  \* "/about"
    [] site = "central_bank" ->
         << Raw(<<67,111,110,99,101,114,116,32,97,110,110,111,117,110,99,101,100>>,
                                                     \* "Concert announced"
                <<47,115,104,111,119>>,              \* "/show"
                <<74,97,110,32,53>>, Absent) >>      \* "Jan 5"
    [] site = "newsdata_io" ->
         << Raw(<<78,101,119,115,68,97,116,97,32,115,116,111,114,121>>,
                                                     \* "NewsData story"
                <<104,116,116,112,115,58,47,47,110,101,119,115,100,97,116,97,46,101,
                  120,97,109,112,108,101,47,120>>,   \* "https://newsdata.example/x"
                <<>>,
                <<50,48,50,53,45,48,49,45,48,49,32,48,56,58,48,48,58,48,48>>) >>
                                                     \* "2025-01-01 08:00:00"
    [] site = "mediastack" ->
         << Raw(<<77,101,100,105,97,83,116,97,99,107,32,115,116,111,114,121>>,
                                                     \* "MediaStack story"
                <<104,116,116,112,115,58,47,47,109,101,100,105,97,115,116,97,99,107,
                  46,101,120,97,109,112,108,101,47,121>>,  \* "https://mediastack.example/y"
                <<>>, Absent) >>

\* ------------------------------------------------------------------------
\* The adapters (src/scraper/manager.py, scrape_*)
\* ------------------------------------------------------------------------
\* What an adapter has so far: the table as its connection sees it, the
\* counter new_articles, and whether an exception left the function
Result(st, n) == [store |-> st, n |-> n, raised |-> FALSE]

\* A loop body that inserts nothing: a condition that fails, or an
\* exception caught by the try around the loop body
Skip(acc) == acc

\*   if cursor.rowcount > 0: new_articles += 1
Counted(acc, c) ==
  [acc EXCEPT !.store = c.store,
              !.n = IF c.rowcount > 0 THEN acc.n + 1 ELSE acc.n]

Insert(acc, source, url, headline, summary, published) ==
  Counted(acc,
          InsertOrIgnore(acc.store,
                         generate_hash([url |-> url, headline |-> headline,
                                        published |-> published]),
                         source, url, headline, summary, published))

\* scrape_rss_feeds, body of the loop over feed.entries
rss_entry(acc, site, e, t) ==
  IF e.title = Absent \/ e.link = Absent
  THEN Skip(acc)                               \* AttributeError, logged
  ELSE LET summary == IF e.summary = Absent THEN <<>> ELSE e.summary
           given == IF e.published = Absent THEN NowIso(t) ELSE e.published
           d == DtParse(given)
           published == IF d.ok THEN DtIsoformat(d) ELSE NowIso(t)
       IN  Insert(acc, Key(site), e.link, e.title, summary, published)

\* scrape_lexington_gov_news, body of the loop: published is stored as found
lexington_gov_entry(acc, site, e, t) ==
  IF e.link # Absent /\ e.published # Absent /\ e.summary # Absent
  THEN LET full_url == IF HasPrefix(e.link, <<47>>) THEN Origin(site) \o e.link
                       ELSE e.link
       IN  IF e.title # <<>> /\ Len(e.title) > 5
           THEN Insert(acc, Key(site), full_url, e.title, e.summary, e.published)
           ELSE Skip(acc)
  ELSE Skip(acc)

\* scrape_wkyt_news, body of the loop: published is the time of the scrape
wkyt_entry(acc, site, e, t) ==
  IF e.title # <<>> /\ Len(e.title) > 10
  THEN IF e.link = Absent
       THEN Skip(acc)                          \* KeyError 'href', logged
       ELSE Insert(acc, Key(site), Urljoin(site, e.link), e.title, <<>>, NowIso(t))
  ELSE Skip(acc)

\* scrape_wkyt_good_questions, body of the loop: one more fetch per article
wkyt_questions_entry(acc, site, e, t) ==
  IF e.link # Absent
  THEN IF e.page # "ok"
       THEN Skip(acc)                          \* requests error, logged
       ELSE IF e.title # Absent
            THEN Insert(acc, Key(site), Urljoin(site, e.link), e.title, <<>>, NowIso(t))
            ELSE Skip(acc)
  ELSE Skip(acc)

\* scrape_newsapi, body of the loop
newsapi_entry(acc, site, e, t) ==
  LET published == IF e.published = Absent THEN NowIso(t) ELSE e.published
      source_name == IF e.name = Absent THEN <<78,101,119,115,65,80,73>>  \* "NewsAPI"
                     ELSE e.name
  IN  IF e.title # <<>> /\ e.link # <<>>
      THEN Insert(acc, Key(site) \o source_name, e.link, e.title, e.summary, published)
      ELSE Skip(acc)

\* scrape_civiclex_news, body of the loop
civiclex_entry(acc, site, e, t) ==
  IF e.title # <<>> /\ Len(e.title) > 10 /\ Contains(e.link, <<47,110,101,119,115,47>>)
  THEN Insert(acc, Key(site), Urljoin(site, e.link), e.title, <<>>, NowIso(t))
  ELSE Skip(acc)

\* scrape_central_bank_center, body of the loop
central_bank_entry(acc, site, e, t) ==
  LET date_text == IF e.summary = Absent THEN <<>> ELSE e.summary
  IN  IF e.link # Absent
      THEN IF e.title # <<>> /\ Len(e.title) > 5
           THEN Insert(acc, Key(site), Urljoin(site, e.link), e.title, date_text, NowIso(t))
           ELSE Skip(acc)
      ELSE Skip(acc)

\* scrape_newsdata_io and scrape_mediastack, body of the loop
newsdata_entry(acc, site, e, t) ==
  LET pub_date == IF e.published = Absent THEN NowIso(t) ELSE e.published
  IN  IF e.title # <<>> /\ e.link # <<>> /\ Len(e.title) > 5
      THEN Insert(acc, Key(site), e.link, e.title, e.summary, pub_date)
      ELSE Skip(acc)

Candidate(site, acc, e, t) ==
  CASE site = "lexington_gov" -> lexington_gov_entry(acc, site, e, t)
    [] site = "wkyt" -> wkyt_entry(acc, site, e, t)
    [] site = "wkyt_questions" -> wkyt_questions_entry(acc, site, e, t)
    [] site = "newsapi" -> newsapi_entry(acc, site, e, t)
    [] site = "civiclex" -> civiclex_entry(acc, site, e, t)
    [] site = "central_bank" -> central_bank_entry(acc, site, e, t)
    [] site \in {"newsdata_io", "mediastack"} -> newsdata_entry(acc, site, e, t)
    [] OTHER -> rss_entry(acc, site, e, t)

\* the candidates for which the loop body raises (a field that is not
\* there, a page that cannot be fetched); the try around the body logs it
Fails(site, e) ==
  CASE site = "wkyt" -> e.title # <<>> /\ Len(e.title) > 10 /\ e.link = Absent
    [] site = "wkyt_questions" -> e.link # Absent /\ e.page # "ok"
    [] site \in {RSS_FEEDS[i] : i \in 1..Len(RSS_FEEDS)} ->
         e.title = Absent \/ e.link = Absent
    [] OTHER -> FALSE

\* the loop without the try around its body: the first candidate that
\* raises ends the loop and the exception leaves it
RECURSIVE InsertLoopUnguarded(_, _, _, _)
InsertLoopUnguarded(site, acc, items, t) ==
  IF items = <<>>
  THEN acc
  ELSE IF Fails(site, Head(items))
       THEN [acc EXCEPT !.raised = TRUE]
       ELSE InsertLoopUnguarded(site, Candidate(site, acc, Head(items), t),
                                Tail(items), t)

\* the loop over the candidates of one endpoint, on one connection
RECURSIVE InsertLoop(_, _, _, _)
InsertLoop(site, acc, items, t) ==
  IF items = <<>>
  THEN acc
  ELSE InsertLoop(site, Candidate(site, acc, Head(items), t), Tail(items), t)

\* What one run meets at an endpoint.  status: "ok"; "fail" (the request or
\* the parse raises); "nokey" (the API key is not configured); "apierror"
\* (the API answers with an error document); "commit_fail" (the loop ran,
\* the commit on leaving the with-block raises and the connection rolls
\* the transaction back)

\* the with-block left by an exception: the inserts of the loop are rolled
\* back, the counter of the function keeps what the loop added to it
RolledBack(st, r) == [r EXCEPT !.store = st]

\* scrape_rss_feeds, body of the loop over RSS_FEEDS: one try and one
\* connection per feed
RssFeed(acc, site, f, t) ==
  CASE f.status = "fail" -> acc
    [] f.status = "commit_fail" -> RolledBack(acc.store, InsertLoop(site, acc, f.items, t))
    [] OTHER -> InsertLoop(site, acc, f.items, t)

RECURSIVE RssFeeds(_, _, _, _)
RssFeeds(acc, web, t, k) ==
  IF k > Len(RSS_FEEDS)
  THEN acc
  ELSE RssFeeds(RssFeed(acc, RSS_FEEDS[k], web[RSS_FEEDS[k]], t), web, t, k + 1)

\* scrape_rss_feeds: one counter for all feeds
scrape_rss_feeds(st, web, t) == RssFeeds(Result(st, 0), web, t, 1)

\* an adapter without the try around the function: the exception leaves it
PageAdapterRaising(site, st, items, status, t) ==
  CASE status = "ok" -> InsertLoop(site, Result(st, 0), items, t)
    [] OTHER -> [store |-> st, n |-> 0, raised |-> TRUE]

\* the adapters with one try around the whole function: every exception,
\* the failed commit included, ends in "return 0"
PageAdapter(site, st, items, status, t) ==
  CASE status = "ok" -> InsertLoop(site, Result(st, 0), items, t)
    [] OTHER -> Result(st, 0)

scrape_lexington_gov_news(st, web, t) ==
  LET f == web["lexington_gov"]
      news_items == SubSeq(f.items, 1, IF Len(f.items) < 10 THEN Len(f.items) ELSE 10)
  IN  PageAdapter("lexington_gov", st, news_items, f.status, t)

scrape_wkyt_news(st, web, t) ==
  PageAdapter("wkyt", st, web["wkyt"].items, web["wkyt"].status, t)

scrape_wkyt_good_questions(st, web, t) ==
  PageAdapter("wkyt_questions", st, web["wkyt_questions"].items,
              web["wkyt_questions"].status, t)

scrape_newsapi(st, web, t) ==
  IF web["newsapi"].status = "nokey"
  THEN Result(st, 0)
  ELSE PageAdapter("newsapi", st, web["newsapi"].items, web["newsapi"].status, t)

scrape_civiclex_news(st, web, t) ==
  PageAdapter("civiclex", st, web["civiclex"].items, web["civiclex"].status, t)

scrape_central_bank_center(st, web, t) ==
  PageAdapter("central_bank", st, web["central_bank"].items,
              web["central_bank"].status, t)

scrape_newsdata_io(st, web, t) ==
  IF web["newsdata_io"].status = "apierror"
  THEN Result(st, 0)
  ELSE PageAdapter("newsdata_io", st, web["newsdata_io"].items,
                   web["newsdata_io"].status, t)

scrape_mediastack(st, web, t) ==
  IF web["mediastack"].status = "apierror"
  THEN Result(st, 0)
  ELSE PageAdapter("mediastack", st, web["mediastack"].items,
                   web["mediastack"].status, t)

\*   total += self.scrape_...(): the callee's count is added, the table is
\*   as the callee left it; an exception leaving the callee leaves the caller
Plus(r, a) ==
  [store |-> a.store, n |-> IF a.raised THEN r.n ELSE r.n + a.n, raised |-> a.raised]

newsdata_io_part(r, web, t) ==
  IF web["newsdata_io"].status # "nokey"
  THEN Plus(r, scrape_newsdata_io(r.store, web, t))
  ELSE r

mediastack_part(r, web, t) ==
  IF ~r.raised /\ web["mediastack"].status # "nokey"
  THEN Plus(r, scrape_mediastack(r.store, web, t))
  ELSE r

scrape_newsdata_apis(st, web, t) ==
  mediastack_part(newsdata_io_part(Result(st, 0), web, t), web, t)

\* the keys of the dispatch table of scrape_source and of the CLI
AdapterKeys == <<"rss", "lexington_gov", "wkyt", "wkyt_questions", "newsapi",
                 "civiclex", "central_bank", "newsdata_apis">>

Adapter(key, st, web, t) ==
  CASE key = "rss" -> scrape_rss_feeds(st, web, t)
    [] key = "lexington_gov" -> scrape_lexington_gov_news(st, web, t)
    [] key = "wkyt" -> scrape_wkyt_news(st, web, t)
    [] key = "wkyt_questions" -> scrape_wkyt_good_questions(st, web, t)
    [] key = "newsapi" -> scrape_newsapi(st, web, t)
    [] key = "civiclex" -> scrape_civiclex_news(st, web, t)
    [] key = "central_bank" -> scrape_central_bank_center(st, web, t)
    [] key = "newsdata_apis" -> scrape_newsdata_apis(st, web, t)

\* scrape_all: the adapters one after the other; an exception that leaves an
\* adapter would end the run there
RECURSIVE RunAdapters(_, _, _, _)
RunAdapters(keys, r, web, t) ==
  IF keys = <<>> \/ r.raised
  THEN r
  ELSE RunAdapters(Tail(keys), Plus(r, Adapter(Head(keys), r.store, web, t)), web, t)

ScrapeOrder == <<"rss", "lexington_gov", "wkyt", "wkyt_questions", "newsapi",
                 "civiclex", "central_bank", "newsdata_apis">>

scrape_all(st, web, t) == RunAdapters(ScrapeOrder, Result(st, 0), web, t)

\* ------------------------------------------------------------------------
\* Publish selector (fetch_unposted_articles)
\* ------------------------------------------------------------------------
Lower(s) == [i \in 1..Len(s) |-> IF s[i] \in 65..90 THEN s[i] + 32 ELSE s[i]]

EndsWith(s, d) == Len(s) >= Len(d) /\ SubSeq(s, Len(s) - Len(d) + 1, Len(s)) = d

\* urlparse(url).netloc: the text between "//" after the scheme and the
\* next "/", "?" or "#"
Netloc(url) ==
  LET marks == {i \in 1..Len(url) : i + 2 <= Len(url)
                                     /\ SubSeq(url, i, i + 2) = <<58,47,47>>}  \* "://"
  IN  IF marks = {}
      THEN <<>>
      ELSE LET from == (CHOOSE i \in marks : \A j \in marks : i <= j) + 3
               ends == {i \in from..Len(url) : url[i] \in {47, 63, 35}}
               to == IF ends = {} THEN Len(url)
                     ELSE (CHOOSE i \in ends : \A j \in ends : i <= j) - 1
           IN  SubSeq(url, from, to)

\* the block lists without the list of sources
BlockedByDomain(source, url, bsources, bdomains) ==
  \E d \in bdomains :
    LET host == Lower(Netloc(url))
    IN  host # <<>> /\ (EndsWith(host, d) \/ host = d)

\* the test both fetch_unposted_articles and post_unposted_articles apply
Blocked(source, url, bsources, bdomains) ==
  \/ source # <<>> /\ Lower(source) \in bsources
  \/ \E d \in bdomains :
       LET host == Lower(Netloc(url))
       IN  host # <<>> /\ (EndsWith(host, d) \/ host = d)

\* ORDER BY id DESC
RowBeforeById(a, b) == a.id > b.id

\* ORDER BY published DESC, id DESC
RowBefore(a, b) ==
  \/ StrLess(b.published, a.published)
  \/ a.published = b.published /\ a.id > b.id

RECURSIVE OrderBy(_)
OrderBy(rows) ==
  IF rows = {}
  THEN <<>>
  ELSE LET first == CHOOSE r \in rows : \A q \in rows \ {r} : RowBefore(r, q)
       IN  <<first>> \o OrderBy(rows \ {first})

\* an optional argument: <<>> is None, <<v>> is the value v
None == <<>>

\* LIMIT ?  (a negative limit is no limit in SQLite)
SqlLimit(rows, n) ==
  IF n < 0 \/ n >= Len(rows) THEN rows ELSE SubSeq(rows, 1, n)

RECURSIVE FilterBlocked(_, _, _)
FilterBlocked(rows, bsources, bdomains) ==
  IF rows = <<>>
  THEN <<>>
  ELSE IF Blocked(Head(rows).source, Head(rows).url, bsources, bdomains)
       THEN FilterBlocked(Tail(rows), bsources, bdomains)
       ELSE <<Head(rows)>> \o FilterBlocked(Tail(rows), bsources, bdomains)

\* WHERE posted = 0 alone: the source argument is dropped
MatchesAnySource(row, source) == row.posted = 0

\* WHERE posted = 0 [AND source = ?]: the source condition is added for a
\* source argument that is neither None nor empty
Matches(row, source) ==
  /\ row.posted = 0
  /\ (source # None /\ source[1] # <<>>) => row.source = source[1]

\* SELECT id, url, headline, source, published FROM rss_data WHERE ...
\* ORDER BY published DESC, id DESC [LIMIT ?], then the block lists
fetch_unposted_articles(st, limit, source, bsources, bdomains) ==
  LET hits == {i \in 1..Len(st) : Matches(st[i], source)}
      cols == {[id |-> st[i].id, url |-> st[i].url, headline |-> st[i].headline,
                source |-> st[i].source, published |-> st[i].published] : i \in hits}
      rows == IF limit # None /\ limit[1] # 0 THEN SqlLimit(OrderBy(cols), limit[1])
              ELSE OrderBy(cols)
  IN  IF bsources # {} \/ bdomains # {}
      THEN FilterBlocked(rows, bsources, bdomains)
      ELSE rows

\* ------------------------------------------------------------------------
\* Publish driver (post_to_reddit, post_unposted_articles)
\* ------------------------------------------------------------------------
\* UPDATE rss_data SET posted = (id = ?): the flag of every other row is cleared
SetPostedOnly(st, post_id) ==
  [i \in 1..Len(st) |-> [st[i] EXCEPT !.posted = IF st[i].id = post_id THEN 1 ELSE 0]]

\* UPDATE rss_data SET posted = 1 WHERE id = ?
SetPosted(st, post_id) ==
  [i \in 1..Len(st) |-> IF st[i].id = post_id THEN [st[i] EXCEPT !.posted = 1]
                        ELSE st[i]]

\* What the outside does to one call of post_to_reddit:
\*   "ok"           subreddit.submit returns and the UPDATE is committed
\*   "submit_fail"  init_reddit or subreddit.submit raises
\*   "write_fail"   subreddit.submit returns, the UPDATE raises
Outcomes == {"ok", "submit_fail", "write_fail"}

\*   "flair_fail"   subreddit.submit returns, submission.flair.select raises,
\*                  the UPDATE is committed
FlairOutcomes == Outcomes \cup {"flair_fail"}

\* the outcomes with which post_to_reddit returns True
Succeeds(outcome) == outcome \in {"ok", "flair_fail"}

\* get_flair_id: the key into FLAIR_IDS for the headline, None without a
\* keyword in it
get_flair_id(headline) ==
  LET headline_lower == Lower(headline)
  IN  CASE Contains(headline_lower, <<115,104,111,116>>)                  \* "shot"
             \/ Contains(headline_lower, <<115,104,111,111,116,101,114>>)  \* "shooter"
             \/ Contains(headline_lower, <<115,104,111,111,116,105,110,103>>)
                                                                          \* "shooting"
             -> <<"general">>
        [] Contains(headline_lower, <<102,105,114,101>>) -> <<"fire">>     \* "fire"
        [] Contains(headline_lower, <<104,111,109,101,108,101,115,115>>)   \* "homeless"
             \/ Contains(headline_lower, <<117,110,104,111,117,115,101,100>>)
                                                                          \* "unhoused"
             -> <<"homeless">>
        [] OTHER -> None

\* the exception of flair.select not caught where it is raised: it ends in
\* the except of the function, after the submission and before the UPDATE
post_to_reddit_flair_uncaught(st, post_id, outcome) ==
  CASE outcome = "ok" ->
         [store |-> SetPosted(st, post_id), ok |-> TRUE, submitted |-> TRUE]
    [] outcome \in {"write_fail", "flair_fail"} ->
         [store |-> st, ok |-> FALSE, submitted |-> TRUE]
    [] OTHER ->
         [store |-> st, ok |-> FALSE, submitted |-> FALSE]

\* the UPDATE ahead of the submission: the row is marked whatever happens
post_to_reddit_marking_first(st, post_id, outcome) ==
  [store |-> SetPosted(st, post_id), ok |-> outcome \in {"ok", "flair_fail"},
   submitted |-> outcome # "submit_fail"]

\* the submission without the UPDATE
post_to_reddit_unmarked(st, post_id, outcome) ==
  [store |-> st, ok |-> outcome \in {"ok", "flair_fail"},
   submitted |-> outcome # "submit_fail"]

\* post_to_reddit: submit, select the flair (its failure is passed over),
\* then mark; every other exception gives False
post_to_reddit(st, post_id, outcome) ==
  CASE Succeeds(outcome) ->
         [store |-> SetPosted(st, post_id), ok |-> TRUE, submitted |-> TRUE]
    [] outcome = "write_fail" ->
         [store |-> st, ok |-> FALSE, submitted |-> TRUE]
    [] OTHER ->
         [store |-> st, ok |-> FALSE, submitted |-> FALSE]

\* time.sleep(2) after a post that succeeded
PostDelay == 2

\* the loop without time.sleep
AfterPostUnpaced(acc, post_id, r) ==
  [acc EXCEPT !.store = r.store,
              !.n = IF r.ok THEN acc.n + 1 ELSE acc.n,
              !.tried = Append(acc.tried, post_id),
              !.at = Append(acc.at, acc.slept),
              !.sent = IF r.submitted THEN Append(acc.sent, post_id) ELSE acc.sent]

\*   if self.post_to_reddit(...): posted_count += 1; time.sleep(2)
\* (tried lists the ids post_to_reddit was called for, at the time slept
\* before each call; sent lists the ids whose submission returned)
AfterPost(acc, post_id, r) ==
  [acc EXCEPT !.store = r.store,
              !.n = IF r.ok THEN acc.n + 1 ELSE acc.n,
              !.tried = Append(acc.tried, post_id),
              !.at = Append(acc.at, acc.slept),
              !.sent = IF r.submitted THEN Append(acc.sent, post_id) ELSE acc.sent,
              !.slept = IF r.ok THEN acc.slept + PostDelay ELSE acc.slept]

\* a second call of post_to_reddit for a row whose post failed
RetryFailed(acc, row, outcome) ==
  IF outcome = "ok"
  THEN acc
  ELSE AfterPost(acc, row.id, post_to_reddit(acc.store, row.id, outcome))

\* the body of the loop with one retry
PostRowRetrying(acc, row, outcome, bsources, bdomains) ==
  IF Blocked(row.source, row.url, bsources, bdomains)
  THEN acc
  ELSE RetryFailed(AfterPost(acc, row.id, post_to_reddit(acc.store, row.id, outcome)),
                   row, outcome)

\* the print at the head of the loop body, outside every try: source.upper()
\* and published[:16] raise for a column that is NULL, headline[:50] too
Printable(row) ==
  row.source # Absent /\ row.headline # Absent /\ row.published # Absent

\* post_unposted_articles, body of the loop
PostRow(acc, row, outcome, bsources, bdomains) ==
  IF ~Printable(row)
  THEN [acc EXCEPT !.raised = TRUE]
  ELSE IF Blocked(row.source, row.url, bsources, bdomains)
       THEN acc
       ELSE AfterPost(acc, row.id, post_to_reddit(acc.store, row.id, outcome))

\* the loop of post_unposted_articles over the rows selected at its start;
\* outs[k] is what happens to the k-th row; an exception ends the loop
RECURSIVE PostLoop(_, _, _, _, _)
PostLoop(acc, k, outs, bsources, bdomains) ==
  IF k > Len(acc.unposted) \/ acc.raised
  THEN acc
  ELSE PostLoop(PostRow(acc, acc.unposted[k], outs[k], bsources, bdomains),
                k + 1, outs, bsources, bdomains)

\* a publish run before its first row
NoPosts(st, unposted) ==
  [store |-> st, n |-> 0, tried |-> <<>>, at |-> <<>>, sent |-> <<>>, slept |-> 0,
   unposted |-> unposted, raised |-> FALSE]

PostAll(st, unposted, outs, bsources, bdomains) ==
  IF unposted = <<>>
  THEN NoPosts(st, <<>>)
  ELSE PostLoop(NoPosts(st, unposted), 1, outs, bsources, bdomains)

post_unposted_articles(st, limit, source, outs, bsources, bdomains) ==
  PostAll(st, fetch_unposted_articles(st, <<limit>>, source, bsources, bdomains),
          outs, bsources, bdomains)

\* ------------------------------------------------------------------------
\* The state machine
\* ------------------------------------------------------------------------
VARIABLES
  store,       \* the rows of rss_data, in insertion order
  clock,       \* the wall clock
  live,        \* the endpoints that serve content
  bsources,    \* BLOCKED_SOURCES
  bdomains,    \* BLOCKED_DOMAINS
  ret,         \* the operation that has just returned: arguments and result
  sent,        \* per row id, how often an external submission of it returned
  crashes,     \* how often a submission returned and its UPDATE was lost
  runs         \* the ingestion runs under way side by side, each on its own connection

vars == <<store, clock, live, bsources, bdomains, ret, sent, crashes, runs>>

\* the endpoints that serve content in one behaviour
Webs ==
  { {"wuky", "weku", "lexington_gov"}, {"fox56", "wkyt"}, {"wtvq", "newsapi"},
    {"civiclex", "central_bank"}, {"newsdata_io", "mediastack"},
    {"wkyt_questions"} }

\* REDDIT_BLOCKED_SOURCES and REDDIT_BLOCKED_DOMAINS, lower-cased on load:
\* empty, or naming a source or a domain of the live endpoints, or a domain
\* whose name is the tail of a live endpoint's host
BlockLists(web) ==
  {<<{}, {}>>}
    \cup (IF "wkyt" \in web
          THEN {<<{<<119,107,121,116>>}, {}>>}                        \* "wkyt"
          ELSE {})
    \cup (IF "civiclex" \in web
          THEN {<<{}, {<<99,105,118,105,99,108,101,120,46,111,114,103>>}>>,
                                                                      \* "civiclex.org"
                <<{}, {<<108,101,120,46,111,114,103>>}>>}             \* "lex.org"
          ELSE {})

\* what an operation gave back: the count it returned (n), the rows it
\* returned or selected (rows), or that it raised
Return(op, arg, n, raised, rows) ==
  [op |-> op, arg |-> arg, n |-> n, raised |-> raised, rows |-> rows]

Idle == Return("idle", <<>>, 0, FALSE, <<>>)

Init ==
  /\ store = <<>>
  /\ clock = 0
  /\ live \in Webs
  /\ \E lists \in BlockLists(live) : bsources = lists[1] /\ bdomains = lists[2]
  /\ ret = Idle
  /\ sent = [id \in 1..MaxRows |-> 0]
  /\ crashes = 0
  /\ runs = <<>>

\* how an endpoint can let a run down
Modes(site) ==
  CASE site = "none" -> {"ok"}
    [] site = "newsapi" -> {"fail", "commit_fail", "nokey"}
    [] site \in {"newsdata_io", "mediastack"} -> {"fail", "commit_fail", "nokey", "apierror"}
    [] OTHER -> {"fail", "commit_fail"}

\* what a run meets when endpoint bad is in mode
WebOf(web, bad, mode) ==
  [site \in Sites |-> [status |-> IF site = bad THEN mode ELSE "ok",
                       items |-> IF site \in web THEN ItemsAt(site) ELSE <<>>]]

\* time passes
Tick ==
  /\ ret = Idle
  /\ clock < MaxClock
  /\ clock' = clock + 1
  /\ UNCHANGED <<store, live, bsources, bdomains, ret, sent, crashes, runs>>

\* the caller has taken the result; the next operation can start
Acknowledge ==
  /\ ret # Idle
  /\ ret' = Idle
  /\ UNCHANGED <<store, clock, live, bsources, bdomains, sent, crashes, runs>>

\* a scrape has returned r
Scraped(op, arg, r) ==
  /\ Len(r.store) <= MaxRows
  /\ store' = r.store
  /\ ret' = Return(op, arg, r.n, r.raised, <<>>)
  /\ UNCHANGED <<clock, live, bsources, bdomains, sent, crashes, runs>>

\* POST /scrape, scraper.cli --scrape
ScrapeAll ==
  /\ ret = Idle
  /\ \E bad \in live \cup {"none"} : \E mode \in Modes(bad) :
       Scraped("scrape_all", <<bad, mode>>,
               scrape_all(store, WebOf(live, bad, mode), clock))

\* the source keys a caller passes to POST /scrape/{source}
AdapterName(key) ==
  CASE key = "rss" -> <<114,115,115>>
    [] key = "lexington_gov" -> <<108,101,120,105,110,103,116,111,110,95,103,111,118>>
    [] key = "wkyt" -> <<119,107,121,116>>
    [] key = "wkyt_questions" -> <<119,107,121,116,95,113,117,101,115,116,105,111,110,115>>
    [] key = "newsapi" -> <<110,101,119,115,97,112,105>>
    [] key = "civiclex" -> <<99,105,118,105,99,108,101,120>>
    [] key = "central_bank" -> <<99,101,110,116,114,97,108,95,98,97,110,107>>
    [] key = "newsdata_apis" -> <<110,101,119,115,100,97,116,97,95,97,112,105,115>>

SourceArgs ==
  {AdapterName(AdapterKeys[i]) : i \in 1..Len(AdapterKeys)}
    \cup {<<87,75,89,84>>, <<98,111,103,117,115>>}                   \* "WKYT", "bogus"

\* POST /scrape/{source}: lower-case the key, look it up, run that adapter;
\* an unknown key is answered with HTTP 400
scrape_source(st, source, web, t) ==
  LET name == Lower(source)
      known == {i \in 1..Len(AdapterKeys) : AdapterName(AdapterKeys[i]) = name}
  IN  IF known = {}
      THEN [store |-> st, n |-> 0, raised |-> TRUE]
      ELSE Adapter(AdapterKeys[CHOOSE i \in known : TRUE], st, web, t)

\* the endpoints the adapter behind a source key fetches
Fetched(source) ==
  LET name == Lower(source)
  IN  IF name = AdapterName("rss") THEN {RSS_FEEDS[i] : i \in 1..Len(RSS_FEEDS)}
      ELSE IF name = AdapterName("newsdata_apis") THEN {"newsdata_io", "mediastack"}
      ELSE {site \in Sites : Key(site) = name \/ (site = "newsapi" /\ name = AdapterName(site))}

ScrapeSource ==
  /\ ret = Idle
  /\ \E source \in SourceArgs :
     \E bad \in (live \cap Fetched(source)) \cup {"none"} : \E mode \in Modes(bad) :
       Scraped("scrape_source", <<source, bad, mode>>,
               scrape_source(store, source, WebOf(live, bad, mode), clock))

Limits == {<<n>> : n \in 0..MaxLimit}

SourceFilters(web) == {None} \cup {<<Key(s)>> : s \in web}

\* a selection has returned rows
Selected(arg, rows) ==
  /\ ret' = Return("fetch", arg, Len(rows), FALSE, rows)
  /\ UNCHANGED <<store, clock, live, bsources, bdomains, sent, crashes, runs>>

\* the selector on its own
FetchUnposted ==
  /\ ret = Idle
  /\ \E limit \in Limits \cup {None} : \E source \in SourceFilters(live) :
       Selected(<<limit, source>>,
                fetch_unposted_articles(store, limit, source, bsources, bdomains))

RECURSIVE Count(_, _)
Count(seq, x) ==
  IF seq = <<>> THEN 0
  ELSE (IF Head(seq) = x THEN 1 ELSE 0) + Count(Tail(seq), x)

\* what can happen to the rows of one publish run
OutcomesFor(rows) == [1..Len(rows) -> Outcomes]

\* the same with the flair: flair.select is called, and can fail, for a
\* headline that get_flair_id has a flair for
FlairOutcomesFor(rows) ==
  {outs \in [1..Len(rows) -> FlairOutcomes] :
     \A k \in 1..Len(rows) :
       outs[k] = "flair_fail"
         => rows[k].headline # Absent /\ get_flair_id(rows[k].headline) # None}

\* a publish run has returned r: every submission that returned is on
\* record, and so is every submission whose UPDATE was lost
Posted(arg, r) ==
  /\ crashes + Len(r.sent) - r.n <= MaxCrashes
  /\ store' = r.store
  /\ sent' = [id \in 1..MaxRows |-> sent[id] + Count(r.sent, id)]
  /\ crashes' = crashes + Len(r.sent) - r.n
  /\ ret' = Return("post", arg, r.n, r.raised, r.unposted)
  /\ UNCHANGED <<clock, live, bsources, bdomains, runs>>

\* _build_reddit_config, called by init_reddit inside the try of
\* post_to_reddit while self.reddit is None: with REDDIT_CLIENT_ID,
\* REDDIT_CLIENT_SECRET or REDDIT_USER_AGENT missing it raises RuntimeError
\* on every call, so every post of the run fails before its submission
Configured(outs, credentials) ==
  credentials \/ \A k \in DOMAIN outs : outs[k] = "submit_fail"

\* POST /reddit/post-unposted, scraper.cli --post
PostUnposted ==
  /\ ret = Idle
  /\ \E limit \in 0..MaxLimit : \E source \in SourceFilters(live) :
     \E credentials \in BOOLEAN :
     \E outs \in FlairOutcomesFor(fetch_unposted_articles(store, <<limit>>, source,
                                                          bsources, bdomains)) :
       /\ Configured(outs, credentials)
       /\ Posted(<<<<limit>>, source, outs, credentials>>,
                 post_unposted_articles(store, limit, source, outs, bsources, bdomains))

\* ------------------------------------------------------------------------
\* The legacy script (src/feed_scraper.py) on the same table
\* ------------------------------------------------------------------------
\* feed_scraper.fetch_unposted_articles: no source argument, no block lists
legacy_fetch_unposted_articles(st, limit) ==
  LET hits == {i \in 1..Len(st) : st[i].posted = 0}
      cols == {[id |-> st[i].id, url |-> st[i].url, headline |-> st[i].headline,
                source |-> st[i].source, published |-> st[i].published] : i \in hits}
      rows == OrderBy(cols)
  IN  IF limit # None /\ limit[1] # 0 THEN SqlLimit(rows, limit[1]) ELSE rows

\* feed_scraper.post_to_reddit: submit, then mark; every exception gives False
legacy_post_to_reddit(st, post_id, outcome) ==
  CASE outcome = "ok" ->
         [store |-> SetPosted(st, post_id), ok |-> TRUE, submitted |-> TRUE]
    [] outcome = "write_fail" ->
         [store |-> st, ok |-> FALSE, submitted |-> TRUE]
    [] OTHER ->
         [store |-> st, ok |-> FALSE, submitted |-> FALSE]

\*   if self.post_to_reddit(...): posted_count += 1; posted_count += 1;
\*   time.sleep(2)
LegacyAfterPost(acc, post_id, r) ==
  [acc EXCEPT !.store = r.store,
              !.n = IF r.ok THEN acc.n + 1 + 1 ELSE acc.n,
              !.tried = Append(acc.tried, post_id),
              !.at = Append(acc.at, acc.slept),
              !.sent = IF r.submitted THEN Append(acc.sent, post_id) ELSE acc.sent,
              !.slept = IF r.ok THEN acc.slept + PostDelay ELSE acc.slept]

RECURSIVE LegacyPostLoop(_, _, _)
LegacyPostLoop(acc, k, outs) ==
  IF k > Len(acc.unposted)
  THEN acc
  ELSE LegacyPostLoop(LegacyAfterPost(acc, acc.unposted[k].id,
                                      legacy_post_to_reddit(acc.store,
                                                            acc.unposted[k].id, outs[k])),
                      k + 1, outs)

LegacyPostAll(st, unposted, outs) ==
  IF unposted = <<>>
  THEN NoPosts(st, <<>>)
  ELSE LegacyPostLoop(NoPosts(st, unposted), 1, outs)

\* feed_scraper.post_unposted_articles
legacy_post_unposted_articles(st, limit, outs) ==
  LegacyPostAll(st, legacy_fetch_unposted_articles(st, <<limit>>), outs)

\* a publish run of the legacy script has returned r; lost is the number of
\* submissions that returned and whose UPDATE failed
LegacyPosted(arg, r, lost) ==
  /\ crashes + lost <= MaxCrashes
  /\ store' = r.store
  /\ sent' = [id \in 1..MaxRows |-> sent[id] + Count(r.sent, id)]
  /\ crashes' = crashes + lost
  /\ ret' = Return("legacy_post", arg, r.n, FALSE, r.unposted)
  /\ UNCHANGED <<clock, live, bsources, bdomains, runs>>

\* python feed_scraper.py --post
LegacyPostUnposted ==
  /\ ret = Idle
  /\ \E limit \in 0..MaxLimit :
     \E outs \in OutcomesFor(legacy_fetch_unposted_articles(store, <<limit>>)) :
       LegacyPosted(<<<<limit>>, None, outs>>,
                    legacy_post_unposted_articles(store, limit, outs),
                    Cardinality({k \in DOMAIN outs : outs[k] = "write_fail"}))


Next ==
  \/ Tick
  \/ Acknowledge
  \/ ScrapeAll
  \/ ScrapeSource
  \/ FetchUnposted
  \/ PostUnposted

Spec == Init /\ [][Next]_vars

\* the module and the legacy script at work on one table
LegacyNext ==
  \/ Next
  \/ LegacyPostUnposted

LegacySpec == Init /\ [][LegacyNext]_vars

\* ------------------------------------------------------------------------
\* The other call sites: the command line and POST /reddit/post/{id}
\* ------------------------------------------------------------------------
\* the adapters registered under a source key, as both mappings list them
Registered(source) ==
  {i \in 1..Len(AdapterKeys) : AdapterName(AdapterKeys[i]) = Lower(source)}

\* cli.main with --scrape: with --source the key is lower-cased and looked
\* up; a key that is not in the mapping runs scrape_all
cli_scrape(st, source, web, t) ==
  IF source # None /\ source[1] # <<>>
  THEN IF Registered(source[1]) # {}
       THEN Adapter(AdapterKeys[CHOOSE i \in Registered(source[1]) : TRUE], st, web, t)
       ELSE scrape_all(st, web, t)
  ELSE scrape_all(st, web, t)

\* the values of --source
CliSourceArgs ==
  {None, <<AdapterName("rss")>>, <<AdapterName("wkyt")>>, <<AdapterName("civiclex")>>,
   <<<<98,111,103,117,115>>>>}                                       \* "bogus"

\* python -m scraper.cli --scrape [--source KEY]
CliScrape ==
  /\ ret = Idle
  /\ \E source \in CliSourceArgs :
       Scraped("cli_scrape", <<source, "none", "ok">>,
               cli_scrape(store, source, WebOf(live, "none", "ok"), clock))

\* the action router and the other call sites at work on one table
CallSiteNext ==
  \/ Next
  \/ CliScrape

CallSiteSpec == Init /\ [][CallSiteNext]_vars

\* ------------------------------------------------------------------------
\* The REST handlers that write to the table or post from it
\* (src/api/routers/articles.py create_article, src/api/routers/actions.py
\* reddit_post_one)
\* ------------------------------------------------------------------------
\* ArticleCreate: source, url and headline are required texts, summary and
\* published may be left out (None), posted is 0 or 1.  The payloads tried
\* are the first article of a live endpoint, with and without its date
ApiPayloads(web, t) ==
  {[source |-> Key(s), url |-> Urljoin(s, ItemsAt(s)[1].link),
    headline |-> ItemsAt(s)[1].title, summary |-> Absent,
    published |-> p, posted |-> q] :
     s \in web, p \in {Absent, NowIso(t)}, q \in {0, 1}}

\* create_article: the hash over (url or "") + (headline or "") +
\* (published or ""), then a plain INSERT with the columns as given; the
\* UNIQUE constraint on hash makes a second insert raise (HTTP 400)
create_article(st, payload) ==
  LET published == IF payload.published = Absent THEN <<>> ELSE payload.published
      entry_hash == payload.url \o payload.headline \o published
  IN  IF \E i \in 1..Len(st) : st[i].hash = entry_hash
      THEN [store |-> st, n |-> 0, raised |-> TRUE]
      ELSE [store |-> Append(st, [id |-> NextId(st), hash |-> entry_hash,
                                  source |-> payload.source, url |-> payload.url,
                                  headline |-> payload.headline,
                                  summary |-> payload.summary,
                                  published |-> payload.published,
                                  posted |-> payload.posted]),
            n |-> 1, raised |-> FALSE]

\* POST /articles
CreateArticle ==
  /\ ret = Idle
  /\ Len(store) < MaxCreated
  /\ \E payload \in ApiPayloads(live, clock) :
       Scraped("create_article", payload, create_article(store, payload))

\* SELECT id, url, headline, source FROM rss_data WHERE id = ?
RowsById(st, id) == {i \in 1..Len(st) : st[i].id = id}

\* what can happen to the one post of reddit_post_one
OneOutcomes(st, id) ==
  {o \in FlairOutcomes :
     o = "flair_fail" => \A i \in RowsById(st, id) : get_flair_id(st[i].headline) # None}

\* reddit_post_one has called post_to_reddit and got r
PostedOne(id, outcome, r) ==
  /\ r.submitted => sent[id] < MaxSent
  /\ store' = r.store
  /\ sent' = [sent EXCEPT ![id] = IF r.submitted THEN sent[id] + 1 ELSE sent[id]]
  /\ crashes' = IF outcome = "write_fail" THEN crashes + 1 ELSE crashes
  /\ crashes' <= MaxCrashes
  /\ ret' = Return("post_one", <<id, outcome>>, IF r.ok THEN 1 ELSE 0, ~r.ok, <<>>)
  /\ UNCHANGED <<clock, live, bsources, bdomains, runs>>

\* POST /reddit/post/{id}: 404 without the row, else post_to_reddit for it
\* and 500 when that returns False
RedditPostOne ==
  /\ ret = Idle
  /\ \E id \in 1..MaxRows :
       IF RowsById(store, id) = {}
       THEN /\ ret' = Return("post_one", <<id, "none">>, 0, TRUE, <<>>)
            /\ UNCHANGED <<store, clock, live, bsources, bdomains, sent, crashes, runs>>
       ELSE \E outcome \in OneOutcomes(store, id) :
              PostedOne(id, outcome, post_to_reddit(store, id, outcome))

ApiNext ==
  \/ Acknowledge
  \/ CreateArticle
  \/ PostUnposted
  \/ RedditPostOne

ApiSpec == Init /\ [][ApiNext]_vars

\* ------------------------------------------------------------------------
\* Publish runs one after the other on a table that gets no new rows
\* (scraper.cli --post --limit n from a scheduler)
\* ------------------------------------------------------------------------
\* the scheduled command: its --limit, the same on every run
Schedule(limit) == [limit |-> limit]

\* the table after one full scrape, the block lists as loaded, the limit of
\* the schedule
RepeatInit ==
  /\ clock \in 0..MaxClock
  /\ live \in Webs
  /\ store = scrape_all(<<>>, WebOf(live, "none", "ok"), clock).store
  /\ \E lists \in BlockLists(live) : bsources = lists[1] /\ bdomains = lists[2]
  /\ ret = Idle
  /\ sent = [id \in 1..MaxRows |-> 0]
  /\ crashes = 0
  /\ runs \in {<<Schedule(limit)>> : limit \in 1..MaxLimit}

\* every post of the run succeeds
AllOk(rows) == {[k \in 1..Len(rows) |-> "ok"]}

\* one run of post_unposted_articles(limit) in which every post succeeds
PublishBatch ==
  /\ ret = Idle
  /\ runs # <<>>
  /\ \E limit \in {runs[1].limit} :
     \E outs \in AllOk(fetch_unposted_articles(store, <<limit>>, None,
                                               bsources, bdomains)) :
     \E r \in {post_unposted_articles(store, limit, None, outs, bsources, bdomains)} :
       Posted(<<<<limit>>, None, outs, TRUE>>, r)

RepeatNext ==
  \/ PublishBatch
  \/ Acknowledge

\* the scheduler starts the command again and again (a run can start
\* whenever the one before it has returned), and the result of every run is
\* taken
RepeatSpec ==
  RepeatInit /\ [][RepeatNext]_vars /\ []<><<PublishBatch>>_vars /\ WF_vars(Acknowledge)

\* ------------------------------------------------------------------------
\* Ingestion runs side by side (src/scraper/manager.py, scrape_rss_feeds on
\* two connections to the one database file)
\* ------------------------------------------------------------------------
\* Each run is the body of the loop over RSS_FEEDS for one feed: a
\* connection of its own, INSERT OR IGNORE per entry, the commit on leaving
\* the with-block.  SQLite lets one connection write at a time: the first
\* INSERT of a transaction takes the write lock of the file and the commit
\* gives it back; a connection that cannot get the lock within its timeout
\* raises OperationalError ("database is locked").

\* the feeds the runs are started on
ConcFeeds == {"wuky", "weku", "lex18"}

\* a run: its feed, the entry it is at, the rows of its open transaction,
\* its counter new_articles, whether it holds the write lock, how many of
\* its INSERTs found the database locked, whether it has committed, and
\* whether an exception left the function
Run(site) ==
  [site |-> site, k |-> 1, rows |-> <<>>, n |-> 0, locked |-> FALSE,
   busy |-> 0, done |-> FALSE, raised |-> FALSE]

\* a write lock held without a matching check: every INSERT goes ahead
HeldNever(rs, p) == FALSE

\* another connection holds the write lock of the file
Held(rs, p) == \E q \in DOMAIN rs \ {p} : rs[q].locked

\* the entry gets as far as cursor.execute
ReachesInsert(e) == e.title # Absent /\ e.link # Absent

\* the table as the connection of the run sees it: what is committed and
\* the rows of its own transaction
View(st, run) == st \o run.rows

\* the run after the loop body for its entry k, the INSERT having run on
\* its view of the table
AfterEntry(st, run, acc) ==
  [run EXCEPT !.k = run.k + 1,
              !.rows = SubSeq(acc.store, Len(st) + 1, Len(acc.store)),
              !.n = acc.n,
              !.locked = TRUE]

ConcInit ==
  /\ store = <<>>
  /\ clock = 0
  /\ live = {}
  /\ bsources = {}
  /\ bdomains = {}
  /\ ret = Idle
  /\ sent = [id \in 1..MaxRows |-> 0]
  /\ crashes = 0
  /\ runs \in {<<Run(a), Run(b)>> : a \in ConcFeeds, b \in ConcFeeds}

\* the loop body for the next entry of one run: an entry that lacks a field
\* is logged and skipped, any other runs its INSERT OR IGNORE in the
\* transaction of the run
RunEntry ==
  /\ runs # <<>>
  /\ \E p \in DOMAIN runs :
       /\ ~runs[p].done
       /\ runs[p].k <= Len(ItemsAt(runs[p].site))
       /\ IF ReachesInsert(ItemsAt(runs[p].site)[runs[p].k])
          THEN /\ ~Held(runs, p)
               /\ runs' = [runs EXCEPT ![p] =
                    AfterEntry(store, runs[p],
                               Candidate(runs[p].site,
                                         [store |-> View(store, runs[p]),
                                          n |-> runs[p].n, raised |-> FALSE],
                                         ItemsAt(runs[p].site)[runs[p].k], clock))]
          ELSE runs' = [runs EXCEPT ![p].k = runs[p].k + 1]
  /\ UNCHANGED <<store, clock, live, bsources, bdomains, ret, sent, crashes>>

\* the INSERT of a run waits for the lock of another run longer than the
\* timeout of its connection: OperationalError, caught by the try around
\* the loop body, the entry is logged and passed over
RunBusy ==
  /\ runs # <<>>
  /\ \E p \in DOMAIN runs :
       /\ ~runs[p].done
       /\ runs[p].k <= Len(ItemsAt(runs[p].site))
       /\ ReachesInsert(ItemsAt(runs[p].site)[runs[p].k])
       /\ Held(runs, p)
       /\ runs' = [runs EXCEPT ![p].k = runs[p].k + 1,
                               ![p].busy = runs[p].busy + 1]
  /\ UNCHANGED <<store, clock, live, bsources, bdomains, ret, sent, crashes>>

\* the end of the with-block commits: the rows of the transaction are in
\* the table, the lock is given back
RunCommit ==
  /\ runs # <<>>
  /\ \E p \in DOMAIN runs :
       /\ ~runs[p].done
       /\ runs[p].k > Len(ItemsAt(runs[p].site))
       /\ store' = store \o runs[p].rows
       /\ runs' = [runs EXCEPT ![p].done = TRUE, ![p].locked = FALSE]
  /\ UNCHANGED <<clock, live, bsources, bdomains, ret, sent, crashes>>

ConcNext ==
  \/ RunEntry
  \/ RunBusy
  \/ RunCommit

ConcSpec == ConcInit /\ [][ConcNext]_vars

\* ------------------------------------------------------------------------
\* scrape_all, fetch by fetch (src/scraper/manager.py, scrape_all and the
\* network call at the head of every adapter)
\* ------------------------------------------------------------------------
\* the endpoints in the order scrape_all gets to them
FetchOrder ==
  RSS_FEEDS \o <<"lexington_gov", "wkyt", "wkyt_questions", "newsapi", "civiclex",
                 "central_bank", "newsdata_io", "mediastack">>

\* the fetch is requests.get(..., timeout=10); the feeds are fetched with
\* feedparser.parse(url), which is given no timeout
HasTimeout(site) == \A i \in 1..Len(RSS_FEEDS) : RSS_FEEDS[i] # site

\* the endpoints one of which may never answer
Silent == {"none"} \cup {FetchOrder[i] : i \in 1..Len(FetchOrder)}

\* scrape_all under way: the endpoint it is at, whether its request is out,
\* total_new so far, the endpoint that never answers, whether it returned
Ingest(silent) ==
  [k |-> 1, waiting |-> FALSE, n |-> 0, silent |-> silent, done |-> FALSE]

\* what the adapter does with the answer of one endpoint, added to the
\* total of the run
Fetched1(acc, site, web, t) ==
  CASE ~HasTimeout(site) -> RssFeed(acc, site, web[site], t)
    [] site = "newsdata_io" -> newsdata_io_part(acc, web, t)
    [] site = "mediastack" -> mediastack_part(acc, web, t)
    [] OTHER -> Plus(acc, Adapter(site, acc.store, web, t))

\* the run has dealt with endpoint k
Advance(run, acc) ==
  /\ Len(acc.store) <= MaxRows
  /\ store' = acc.store
  /\ runs' = <<[run EXCEPT !.k = run.k + 1, !.waiting = FALSE, !.n = acc.n]>>
  /\ UNCHANGED <<clock, live, bsources, bdomains, ret, sent, crashes>>

TermInit ==
  /\ store = <<>>
  /\ clock = 0
  /\ live \in Webs
  /\ bsources = {}
  /\ bdomains = {}
  /\ ret = Idle
  /\ sent = [id \in 1..MaxRows |-> 0]
  /\ crashes = 0
  /\ runs \in {<<Ingest(silent)>> : silent \in Silent}

\* the adapter sends its request
IngestRequest ==
  /\ runs # <<>>
  /\ ~runs[1].waiting
  /\ runs[1].k <= Len(FetchOrder)
  /\ runs' = <<[runs[1] EXCEPT !.waiting = TRUE]>>
  /\ UNCHANGED <<store, clock, live, bsources, bdomains, ret, sent, crashes>>

\* the endpoint answers and the adapter works through the answer
IngestResponse ==
  /\ runs # <<>>
  /\ runs[1].waiting
  /\ FetchOrder[runs[1].k] # runs[1].silent
  /\ Advance(runs[1],
             Fetched1([store |-> store, n |-> runs[1].n, raised |-> FALSE],
                      FetchOrder[runs[1].k], WebOf(live, "none", "ok"), clock))

\* no answer within the timeout of the request: requests raises, the
\* adapter logs the error and returns 0
IngestTimeout ==
  /\ runs # <<>>
  /\ runs[1].waiting
  /\ FetchOrder[runs[1].k] = runs[1].silent
  /\ HasTimeout(FetchOrder[runs[1].k])
  /\ Advance(runs[1],
             Fetched1([store |-> store, n |-> runs[1].n, raised |-> FALSE],
                      FetchOrder[runs[1].k],
                      WebOf(live, FetchOrder[runs[1].k], "fail"), clock))

\* return total_new
IngestReturn ==
  /\ runs # <<>>
  /\ ~runs[1].done
  /\ runs[1].k > Len(FetchOrder)
  /\ runs' = <<[runs[1] EXCEPT !.done = TRUE]>>
  /\ ret' = Return("scrape_all", <<runs[1].silent>>, runs[1].n, FALSE, <<>>)
  /\ UNCHANGED <<store, clock, live, bsources, bdomains, sent, crashes>>

TermNext ==
  \/ IngestRequest
  \/ IngestResponse
  \/ IngestTimeout
  \/ IngestReturn

\* the process that runs scrape_all keeps running: a step that can be taken
\* is taken
TermSpec == TermInit /\ [][TermNext]_vars /\ WF_vars(TermNext)

\* ------------------------------------------------------------------------
\* The title of a post (_sanitize_title, post_to_reddit, tools/post_lex18.py)
\* ------------------------------------------------------------------------
\* str.upper on the source keys (ASCII)
Upper(s) == [i \in 1..Len(s) |-> IF s[i] \in 97..122 THEN s[i] - 32 ELSE s[i]]

\* the replacements table: curly quotes, en and em dash, ellipsis,
\* non-breaking space
Replacement(c) ==
  CASE c \in {8216, 8217} -> <<39>>
    [] c \in {8220, 8221} -> <<34>>
    [] c \in {8211, 8212} -> <<45>>
    [] c = 8230 -> <<46,46,46>>
    [] c = 160 -> <<32>>
    [] OTHER -> <<c>>

\* unicodedata.normalize("NFKD", .) on the characters of the model: U+00E9
\* decomposes into "e" and the combining acute accent, the ellipsis and the
\* non-breaking space into their compatibility forms; the other characters
\* (ASCII, quotes, dashes, the euro sign) have no decomposition
Nfkd(c) ==
  CASE c = 233 -> <<101, 769>>
    [] c = 8230 -> <<46,46,46>>
    [] c = 160 -> <<32>>
    [] OTHER -> <<c>>

\* text.replace(k, v) for every entry of the table: each character gives
\* way to its replacement (the text is taken apart by halves)
RECURSIVE Replaced(_)
Replaced(text) ==
  IF text = <<>> THEN <<>>
  ELSE IF Len(text) = 1 THEN Replacement(text[1])
  ELSE Replaced(SubSeq(text, 1, Len(text) \div 2))
         \o Replaced(SubSeq(text, Len(text) \div 2 + 1, Len(text)))

RECURSIVE Normalized(_)
Normalized(text) ==
  IF text = <<>> THEN <<>>
  ELSE IF Len(text) = 1 THEN Nfkd(text[1])
  ELSE Normalized(SubSeq(text, 1, Len(text) \div 2))
         \o Normalized(SubSeq(text, Len(text) \div 2 + 1, Len(text)))

IsAscii(c) == c < 128

\* .encode("ascii", "ignore").decode("ascii")
AsciiIgnore(text) == SelectSeq(text, IsAscii)

\* NewsManager._sanitize_title, post_lex18.sanitize_title
sanitize_title(text) == AsciiIgnore(Normalized(Replaced(text)))

\*   if len(title) > 300: title = title[:297] + "..."
Truncated(title) ==
  IF Len(title) > 300 THEN SubSeq(title, 1, 297) \o <<46,46,46>> ELSE title

\* the title post_to_reddit submits
post_to_reddit_title(source, headline) ==
  Truncated(sanitize_title(<<91>> \o Upper(source) \o <<93,32>> \o headline))

\* the title tools/post_lex18.py submits
post_lex18_title(headline) == Truncated(sanitize_title(headline))


\* ------------------------------------------------------------------------
\* The helpers called on their own
\* ------------------------------------------------------------------------
ExampleUrl == <<104,116,116,112,58,47,47,101,120,97,109,112,108,101,46,99,111,109,
                47>>                                 \* "http://example.com/"
TitleA == <<84,105,116,108,101,32,65>>               \* "Title A"
TitleB == <<84,105,116,108,101,32,66>>               \* "Title B"
Sep06 == <<50,48,50,53,45,48,57,45,48,54,84,48,48,58,48,48,58,48,48>>
                                                     \* "2025-09-06T00:00:00"
Sep07 == <<50,48,50,53,45,48,57,45,48,55,84,48,48,58,48,48,58,48,48>>
                                                     \* "2025-09-07T00:00:00"

\* the entries generate_hash is called with: ".../", ".../a", ".../b";
\* "Title A", "Title B", "aTitle A"; two dates
Entries ==
  [url : {ExampleUrl, ExampleUrl \o <<97>>, ExampleUrl \o <<98>>},
   headline : {TitleA, TitleB, <<97>> \o TitleA},
   published : {Sep06, Sep07}]

\* a helper has returned
Called(call) ==
  /\ ret' = call
  /\ UNCHANGED <<store, clock, live, bsources, bdomains, sent, crashes, runs>>

\* nm.generate_hash(e1); nm.generate_hash(e2)
HashEntries ==
  /\ ret = Idle
  /\ \E e1 \in Entries : \E e2 \in Entries :
       Called(Return("generate_hash", <<e1, e2>>, 0, FALSE,
                     <<generate_hash(e1), generate_hash(e2)>>))

\* n letters "a"
Fill(n) == [i \in 1..n |-> 97]

\* the headlines of the rows posted: typographic punctuation, an accented
\* letter, a symbol without an ASCII form, and long headlines around the
\* limit of 300 (the prefix "[LEX18] " has 8 characters), one of them with
\* an ellipsis where the cut falls
TitleHeadlines ==
  { <<73,116,8217,115,32,111,110,32,8212,32,97,103,97,105,110>>,
                                                     \* "It's on - again", curly and em dash
    <<67,97,102,233,32,111,112,101,110,115>>,        \* "Cafe opens" with U+00E9
    <<80,114,105,99,101,32,8364,53>>,                \* "Price 5" with the euro sign
    <<87,97,105,116,8230,160,119,104,97,116>>,       \* "Wait... what", ellipsis and nbsp
    <<77,97,121,111,114,32,8220,115,112,101,97,107,115,8221>> }
                                                     \* "Mayor "speaks"", curly
    \cup {Fill(n) : n \in 289..303}
    \cup {Fill(290) \o <<8230>>, Fill(292) \o <<233>>}

TitleSources == {Key("lex18"), Key("wkyt")}

\* post_to_reddit composing the title of a row
ComposeTitle ==
  /\ ret = Idle
  /\ \E source \in TitleSources : \E headline \in TitleHeadlines :
       Called(Return("title", <<source, headline>>, 0, FALSE,
                     <<post_to_reddit_title(source, headline)>>))

\* tools/post_lex18.py composing the title of a lex18 row
Lex18Title ==
  /\ ret = Idle
  /\ \E headline \in TitleHeadlines :
       Called(Return("lex18_title", <<Key("lex18"), headline>>, 0, FALSE,
                     <<post_lex18_title(headline)>>))

\* a NewsManager on an empty table
PureInit ==
  /\ store = <<>>
  /\ clock = 0
  /\ live = {}
  /\ bsources = {}
  /\ bdomains = {}
  /\ ret = Idle
  /\ sent = [id \in 1..MaxRows |-> 0]
  /\ crashes = 0
  /\ runs = <<>>

\* the candidates of an endpoint in every order a page can list them
Orders(items) ==
  {[i \in 1..Len(items) |-> items[p[i]]] : p \in Permutations(1..Len(items))}

\* what the endpoint serves and one more candidate: its first one again,
\* without the link
WithBroken(site) == Append(ItemsAt(site), [ItemsAt(site)[1] EXCEPT !.link = Absent])

\* the loop of an adapter over the candidates of its endpoint, on an empty
\* table
InsertCandidates ==
  /\ ret = Idle
  /\ \E site \in Sites : \E items \in Orders(ItemsAt(site)) \cup Orders(WithBroken(site)) :
       Called(Return("insert_loop", <<site, items>>,
                     InsertLoop(site, Result(<<>>, 0), items, clock).n,
                     InsertLoop(site, Result(<<>>, 0), items, clock).raised,
                     InsertLoop(site, Result(<<>>, 0), items, clock).store))

PureNext ==
  \/ Acknowledge
  \/ HashEntries
  \/ ComposeTitle
  \/ Lex18Title
  \/ InsertCandidates

PureSpec == PureInit /\ [][PureNext]_vars


\* ------------------------------------------------------------------------
\* Properties
\* ------------------------------------------------------------------------
ScrapeOps == {"scrape_all", "scrape_source"}

FullRun == <<"none", "ok">>

UniqueFingerprints ==
  \A i, j \in 1..Len(store) : i # j => store[i].hash # store[j].hash

\* the candidates that collide with stored row r: the same url, headline and
\* published, reported by another source with another summary
OtherSources == {<<119,101,107,117>>, <<120>>}                    \* "weku", "x"
OtherSummary == <<110,101,119>>                                   \* "new"

\* C1: no two stored entries have the same fingerprint, and an
\* insert-if-absent of a candidate whose fingerprint is stored adds no row,
\* raises nothing, adds 0 to the count and leaves the stored rows as they are
C1_FingerprintUnique ==
  /\ UniqueFingerprints
  /\ \A i \in 1..Len(store) : \A source \in OtherSources :
       Insert(Result(store, 1), source, store[i].url, store[i].headline,
              OtherSummary, store[i].published) = Result(store, 1)

\* a run has stored the syndicated story of feed wuky and has met it again
\* in feed weku, whose own article it stored
C1_Witness ==
  /\ ret.op = "scrape_all" /\ ret.arg = FullRun /\ ret.n = 3 /\ Len(store) = 3
  /\ \E i \in 1..Len(store) :
       /\ store[i].source = Key("wuky")
       /\ store[i].hash = generate_hash([url |-> WireUrl, headline |-> WireTitle,
                                         published |-> DtIsoformat(DtParse(Rfc01))])
  /\ \E j \in 1..Len(store) : store[j].source = Key("weku")

\* the rows a full run at clock t0 stores in an empty table
FirstRun(t0) == scrape_all(<<>>, WebOf(live, "none", "ok"), t0).store

Hashes(st) == {st[i].hash : i \in 1..Len(st)}

\* every candidate of a full run made at some earlier moment is stored
RanBefore ==
  \E t0 \in 0..clock :
    FirstRun(t0) # <<>> /\ Hashes(FirstRun(t0)) \subseteq Hashes(store)

\* C2: a full run of scrape_all over content that an earlier full run has
\* stored inserts nothing and returns 0, whatever the adapter kind
C2_IdempotentIngestion ==
  [][(ret'.op = "scrape_all" /\ ret'.arg = FullRun /\ RanBefore)
       => (ret'.n = 0 /\ store' = store)]_vars

RowIds(rows) == {rows[k].id : k \in 1..Len(rows)}

PostedIds(st) == {st[i].id : i \in {j \in 1..Len(st) : st[j].posted = 1}}

\* C3: an entry that is posted stays posted through every step of scrape_all,
\* scrape_source, fetch_unposted_articles and post_unposted_articles, and no
\* selection (on its own or at the start of a publish run) returns it
C3_PostedMonotonic ==
  [][/\ PostedIds(store) \subseteq PostedIds(store')
     /\ (ret'.op \in {"fetch", "post"})
          => RowIds(ret'.rows) \cap PostedIds(store) = {}]_vars

\* a selection has returned an entry while another entry is posted
C3_Witness ==
  /\ ret.op = "fetch"
  /\ PostedIds(store) # {}
  /\ ret.rows # <<>>

C5_AtMostOnce ==
  \A id \in 1..MaxRows :
    /\ sent[id] <= 1 + crashes
    /\ crashes = 0 => sent[id] = IF id \in PostedIds(store) THEN 1 ELSE 0

\* a second publish run, without any loss, has passed over the entry the
\* first one posted and has posted another
C5_Witness ==
  /\ ret.op = "post"
  /\ crashes = 0
  /\ ret.n >= 1
  /\ PostedIds(store) \ RowIds(ret.rows) # {}

\* an endpoint that fails: the request or the parse raises, the API key is
\* missing, the API answers with an error document
FailureModes == {"fail", "nokey", "apierror"}

\* the web in which endpoint bad answers and serves nothing
Without(web, bad) == [web EXCEPT ![bad] = [status |-> "ok", items |-> <<>>]]

\* C6: a run of scrape_all in which one endpoint fails raises nothing and
\* stores and counts what the run would without that endpoint's content
C6_AdapterIsolation ==
  [][(ret'.op = "scrape_all" /\ ret'.arg[2] \in FailureModes)
       => /\ ~ret'.raised
          /\ store' = scrape_all(store, Without(WebOf(live, "none", "ok"), ret'.arg[1]),
                                 clock).store
          /\ ret'.n = scrape_all(store, Without(WebOf(live, "none", "ok"), ret'.arg[1]),
                                 clock).n]_vars

\* feed weku failed; the story of feed wuky before it and the news of
\* lexington_gov after it are stored and counted
C6_Witness ==
  /\ ret.op = "scrape_all"
  /\ ret.arg = <<"weku", "fail">>
  /\ ret.n = 2
  /\ ~ret.raised
  /\ {store[i].source : i \in 1..Len(store)} = {Key("wuky"), Key("lexington_gov")}

\* C7: the value scrape_all returns is the number of rows the run added
C7_CountIsRowsAdded ==
  [][ret'.op = "scrape_all" => ret'.n = Len(store') - Len(store)]_vars

IsPrefix(a, b) == Len(a) <= Len(b) /\ SubSeq(b, 1, Len(a)) = a

\* C8: a scrape keeps every stored row as it is and only appends; a publish
\* run keeps the rows and changes nothing but the posted flag of rows whose
\* submission returned in this run; every other step keeps the table
C8_AppendOnly ==
  [][/\ ret'.op \in ScrapeOps => IsPrefix(store, store')
     /\ ret'.op = "post" =>
          /\ Len(store') = Len(store)
          /\ \A i \in 1..Len(store) :
               \/ store'[i] = store[i]
               \/ /\ store'[i] = [store[i] EXCEPT !.posted = 1]
                  /\ sent'[store[i].id] = sent[store[i].id] + 1
                  /\ \E k \in 1..Len(ret'.rows) :
                       ret'.rows[k].id = store[i].id /\ Succeeds(ret'.arg[3][k])
     /\ ret'.op \in {"fetch", "idle"} => store' = store]_vars

\* a scrape has added a row to a table that held a posted row
C8_Witness ==
  /\ ret.op \in ScrapeOps
  /\ ret.n >= 1
  /\ PostedIds(store) # {}

\* C9: every row fetch_unposted_articles returns is a stored row that is not
\* posted and, when a source is given, has that source
C9_SelectsUnpostedOfSource ==
  ret.op = "fetch" =>
    \A k \in 1..Len(ret.rows) :
      \E i \in 1..Len(store) :
        /\ ret.rows[k] = [id |-> store[i].id, url |-> store[i].url,
                          headline |-> store[i].headline, source |-> store[i].source,
                          published |-> store[i].published]
        /\ store[i].posted = 0
        /\ ret.arg[2] # None => store[i].source = ret.arg[2][1]

\* a selection by source has returned a row and has left out a row of
\* another source and a posted row
C9_Witness ==
  /\ ret.op = "fetch"
  /\ ret.arg[2] # None
  /\ Len(ret.rows) = 1
  /\ PostedIds(store) # {}
  /\ \E i \in 1..Len(store) : store[i].posted = 0 /\ store[i].source # ret.arg[2][1]

\* the day of a published text: "2025-01-03"
Day(row) == SubSeq(row.published, 1, 10)

Jan(d) == DatePrefix \o TwoDigits(d)

\* the table holds unposted entries of January 1, 3 and 2, in this order
ThreeDays ==
  /\ Len(store) = 3
  /\ PostedIds(store) = {}
  /\ [i \in 1..3 |-> Day(store[i])] = <<Jan(1), Jan(3), Jan(2)>>

\* C10: the rows of a selection are in descending order of published,
\* compared as text, rows of equal published in descending order of id; of
\* entries of January 1, 3 and 2 a selection with limit 2 returns the entry
\* of January 3, then that of January 2
C10_NewestFirst ==
  /\ ret.op \in {"fetch", "post"} =>
       \A j, k \in 1..Len(ret.rows) :
         j < k => \/ StrLess(ret.rows[k].published, ret.rows[j].published)
                  \/ /\ ret.rows[j].published = ret.rows[k].published
                     /\ ret.rows[j].id > ret.rows[k].id
  /\ (ret.op = "fetch" /\ ret.arg = <<<<2>>, None>> /\ ThreeDays) =>
       [k \in 1..Len(ret.rows) |-> Day(ret.rows[k])] = <<Jan(3), Jan(2)>>

\* the selection with limit 2 over the entries of January 1, 3 and 2
C10_Witness ==
  /\ ret.op = "fetch"
  /\ ret.arg = <<<<2>>, None>>
  /\ ThreeDays
  /\ Len(ret.rows) = 2

\* the unposted rows a selection with this source argument is about, as the
\* selector returns them (id, url, headline, source, published)
Unposted(st, source) ==
  {[id |-> st[i].id, url |-> st[i].url, headline |-> st[i].headline,
    source |-> st[i].source, published |-> st[i].published] :
     i \in {j \in 1..Len(st) : st[j].posted = 0
                                /\ (source # None /\ source[1] # <<>>
                                      => st[j].source = source[1])}}

\* C11: a selection with limit n is the first n rows of the ordered unposted
\* rows that are left after the block lists have been applied (blocked rows
\* do not use up the limit)
C11_LimitAfterFilter ==
  (ret.op = "fetch" /\ ret.arg[1] # None /\ ret.arg[1][1] > 0)
    => ret.rows = SqlLimit(FilterBlocked(OrderBy(Unposted(store, ret.arg[2])),
                                         bsources, bdomains),
                           ret.arg[1][1])

\* host is the domain d or a subdomain of it
HostWithin(host, d) == host = d \/ EndsWith(host, <<46>> \o d)

\* the block lists as the selector's contract states them
OnBlockLists(row) ==
  \/ Lower(row.source) \in bsources
  \/ \E d \in bdomains : HostWithin(Lower(Netloc(row.url)), d)

\* C12: an unposted row is left out of a selection if and only if its source
\* is a blocked source (ignoring case) or the host of its url is a blocked
\* domain or a subdomain of one; a host that only ends with the text of a
\* blocked domain is not left out
C12_BlockListMatching ==
  (ret.op = "fetch" /\ ret.arg[1] = None)
    => {ret.rows[k] : k \in 1..Len(ret.rows)}
         = {row \in Unposted(store, ret.arg[2]) : ~OnBlockLists(row)}

\* the rows of the table whose source is a blocked source
BlockedRows == {i \in 1..Len(store) : Lower(store[i].source) \in bsources}

\* C13: a row whose source is a blocked source is in no selection, is never
\* submitted by a publish run and keeps posted = 0, whatever the limit and
\* the source argument and wherever it stands in the order
C13_BlockedSourceExcluded ==
  /\ ret.op \in {"fetch", "post"}
       => \A k \in 1..Len(ret.rows) : Lower(ret.rows[k].source) \notin bsources
  /\ \A i \in BlockedRows : store[i].posted = 0 /\ sent[store[i].id] = 0

\* a publish run has posted a row while the newest row of the table is a
\* row of a blocked source
C13_Witness ==
  /\ ret.op = "post"
  /\ ret.n >= 1
  /\ \E i \in BlockedRows :
       \A j \in 1..Len(store) : j # i => RowBefore(store[i], store[j])

\* the publish run that ends in the call ret' reports, replayed from the
\* table it started on
Batch(st, call) ==
  post_unposted_articles(st, call.arg[1][1], call.arg[2], call.arg[3],
                         bsources, bdomains)

Ids(rows) == [k \in 1..Len(rows) |-> rows[k].id]

PostedOf(st, id) == \E i \in 1..Len(st) : st[i].id = id /\ st[i].posted = 1

\* every selected row is tried once, in the order of the selection, and a
\* row whose post failed is not marked
Isolated(r, outs, after) ==
  /\ r.tried = Ids(r.unposted)
  /\ \A k \in 1..Len(r.unposted) :
       ~Succeeds(outs[k]) => ~PostedOf(after, r.unposted[k].id)
  /\ \A k \in 1..Len(r.unposted) :
       Succeeds(outs[k]) => PostedOf(after, r.unposted[k].id)

\* C14: in a publish run a row whose submission fails is not marked posted
\* and is not submitted again in that run, and every later row of the run is
\* still tried exactly once, in the order of the selection
C14_FailureIsolation ==
  [][ret'.op = "post" => Isolated(Batch(store, ret'), ret'.arg[3], store')]_vars

\* a publish run whose first submission failed and whose second succeeded
C14_Witness ==
  /\ ret.op = "post"
  /\ Len(ret.rows) >= 2
  /\ ret.arg[3][1] = "submit_fail"
  /\ ret.arg[3][2] = "ok"
  /\ ret.n = 1
  /\ PostedOf(store, ret.rows[2].id)
  /\ ~PostedOf(store, ret.rows[1].id)

PublishOps == {"post", "legacy_post"}

\* the ids whose flag went from 0 to 1
NewlyPosted(before, after) ==
  {id \in 1..MaxRows : PostedOf(after, id) /\ ~PostedOf(before, id)}

Successes(outs) == Cardinality({k \in DOMAIN outs : Succeeds(outs[k])})

\* C15: the value a publish run returns is the number of rows whose post
\* succeeded in the run, which is the number of rows whose posted flag went
\* from 0 to 1 in it, and is never more than the number of rows selected;
\* for post_unposted_articles of scraper/manager.py and of feed_scraper.py
C15_CountIsSuccesses ==
  [][ret'.op \in PublishOps
       => /\ ret'.n = Successes(ret'.arg[3])
          /\ ret'.n = Cardinality(NewlyPosted(store, store'))
          /\ ret'.n <= Len(ret'.rows)]_vars

\* C16: with the platform credentials missing a publish run fails fast with
\* an "unavailable" condition before any row is tried, rather than trying
\* every selected row, failing each and returning 0
C16_FailFastWithoutCredentials ==
  (ret.op = "post" /\ ~ret.arg[4] /\ ret.rows # <<>>) => ret.raised

\* the time slept when the k-th call of post_to_reddit has been dealt with
SleptAfter(r, k) == IF k < Len(r.at) THEN r.at[k + 1] ELSE r.slept

\* the enforced delays of one publish run
Paced(r, outs) ==
  /\ Len(r.at) = Len(r.tried)
  /\ \A i \in 1..Len(r.at) : \A j \in 1..Len(r.at) :
       (i < j /\ Succeeds(outs[i]) /\ Succeeds(outs[j])) => r.at[j] - r.at[i] >= 2
  /\ \A k \in 1..Len(r.at) : ~Succeeds(outs[k]) => SleptAfter(r, k) = r.at[k]
  /\ Successes(outs) >= 1 => r.slept >= 2 * (Successes(outs) - 1)
  /\ Successes(outs) = 0 => r.slept = 0

DifferingFields(e1, e2) ==
  {f \in {"url", "headline", "published"} : e1[f] # e2[f]}

\* C18: generate_hash is a function of (url, headline, published): the same
\* triple gives the same fingerprint, and two triples that differ in exactly
\* one of the three fields give different fingerprints
C18_HashDeterministicSensitive ==
  ret.op = "generate_hash"
    => /\ ret.arg[1] = ret.arg[2] => ret.rows[1] = ret.rows[2]
       /\ Cardinality(DifferingFields(ret.arg[1], ret.arg[2])) = 1
            => ret.rows[1] # ret.rows[2]

\* the literal case: the url ".../a" against ".../b", headline and date kept
C18_Witness ==
  /\ ret.op = "generate_hash"
  /\ ret.arg[1].url = ExampleUrl \o <<97>>
  /\ ret.arg[2] = [ret.arg[1] EXCEPT !.url = ExampleUrl \o <<98>>]
  /\ ret.rows[1] # ret.rows[2]

\* a text of the form YYYY-MM-DD?hh:mm:ss..., ? being any one character
DateTimeLike(s) ==
  /\ Len(s) >= 19
  /\ \A i \in {1, 2, 3, 4, 6, 7, 9, 10, 12, 13, 15, 16, 18, 19} : IsDigit(s[i])
  /\ s[5] = 45 /\ s[8] = 45 /\ s[14] = 58 /\ s[17] = 58

\* ISO-8601 as datetime.isoformat() writes it: YYYY-MM-DDThh:mm:ss, alone or
\* followed by "Z" or by an offset +hh:mm / -hh:mm
Iso8601(s) ==
  /\ DateTimeLike(s)
  /\ s[11] = 84
  /\ \/ Len(s) = 19
     \/ Len(s) = 20 /\ s[20] = 90
     \/ /\ Len(s) = 25
        /\ s[20] \in {43, 45} /\ s[23] = 58
        /\ \A i \in {21, 22, 24, 25} : IsDigit(s[i])

\* the minute of the month a date-time text names (the texts of the model
\* are all of January 2025, in UTC or without a zone)
Minute(s) ==
  ((s[9] - 48) * 10 + (s[10] - 48)) * 1440
    + ((s[12] - 48) * 10 + (s[13] - 48)) * 60
    + (s[15] - 48) * 10 + (s[16] - 48)

\* C19: every stored row has a published value in ISO-8601 form (the source
\* timestamp parsed and written again, or the time of ingestion), so that
\* the text order of the stored values is their order in time
C19_PublishedIsIso ==
  /\ \A i \in 1..Len(store) : Iso8601(store[i].published)
  /\ \A i \in 1..Len(store) : \A j \in 1..Len(store) :
       (DateTimeLike(store[i].published) /\ DateTimeLike(store[j].published)
          /\ Minute(store[i].published) < Minute(store[j].published))
         => StrLess(store[i].published, store[j].published)

\* the title as stated: the bracketed upper-case source and the headline,
\* the typographic characters replaced, every other non-ASCII character
\* removed, the result cut to 297 characters and "..." when longer than 300
StatedTitle(source, headline) ==
  LET text == AsciiIgnore(Replaced(<<91>> \o Upper(source) \o <<93,32>> \o headline))
  IN  IF Len(text) > 300 THEN SubSeq(text, 1, 297) \o <<46,46,46>> ELSE text

\* C20: the title submitted for a row is "[" + upper-case source + "] " +
\* headline, sanitized to ASCII (curly quotes, dashes, ellipsis and
\* non-breaking space replaced, other non-ASCII characters removed) and at
\* most 300 characters long: longer than 300 it is cut to its first 297
\* characters and "...", otherwise it is left as it is
C20_TitleForm ==
  ret.op \in {"title", "lex18_title"}
    => /\ ret.rows[1] = StatedTitle(ret.arg[1], ret.arg[2])
       /\ \A i \in 1..Len(ret.rows[1]) : IsAscii(ret.rows[1][i])
       /\ Len(ret.rows[1]) <= 300

\* the source key a scrape call was given (None: the command line without
\* --source)
KeyOf(call) == IF call.op = "cli_scrape" THEN call.arg[1] ELSE <<call.arg[1]>>

\* the run of the one adapter registered under the key
OneAdapter(st, call, web, t) ==
  Adapter(AdapterKeys[CHOOSE i \in Registered(KeyOf(call)[1]) : TRUE],
          st, WebOf(web, call.arg[2], call.arg[3]), t)

Dispatched(call, before, after, r) ==
  ~call.raised /\ after = r.store /\ call.n = r.n

\* C21: a scrape of one source with a key that is not registered fails with
\* an "unknown source" condition, runs no adapter and inserts nothing; with
\* a registered key it runs exactly that adapter; at the HTTP action and at
\* the command line
C21_UnknownSource ==
  [][(ret'.op \in {"scrape_source", "cli_scrape"} /\ KeyOf(ret') # None)
       => IF Registered(KeyOf(ret')[1]) = {}
          THEN ret'.raised /\ store' = store
          ELSE Dispatched(ret', store, store', OneAdapter(store, ret', live, clock))]_vars

\* ------------------------------------------------------------------------
\* C22
\* ------------------------------------------------------------------------
\* the fingerprints a run on the feed hands to INSERT OR IGNORE
Attempted(site) == Hashes(InsertLoop(site, Result(<<>>, 0), ItemsAt(site), clock).store)

C23_IngestAllReturns == <>(runs # <<>> /\ runs[1].done)

\* ------------------------------------------------------------------------
\* C24
\* ------------------------------------------------------------------------
\* C24: a publish batch never raises because of an individual entry:
\* whatever the table holds and whatever happens to the submissions,
\* post_unposted_articles runs to its end and returns a count.
C24_BatchNeverRaises == ret.op = "post" => ~ret.raised

\* ------------------------------------------------------------------------
\* C25
\* ------------------------------------------------------------------------
\* the rows of a publish run whose submission returned and whose flair could
\* not be set
FlairFailed(outs) == {k \in DOMAIN outs : outs[k] = "flair_fail"}

\* C25: when the submission of a row succeeds and setting its flair fails,
\* the row is still marked posted and counted as a success, and the publish
\* run goes on with the rows after it.
C25_FlairFailureSwallowed ==
  [][ret'.op = "post"
       => /\ ~ret'.raised
          /\ \A k \in FlairFailed(ret'.arg[3]) :
               /\ PostedOf(store', ret'.rows[k].id)
               /\ Count(Batch(store, ret').sent, ret'.rows[k].id) = 1
          /\ ret'.n = Successes(ret'.arg[3])
          /\ Batch(store, ret').tried = Ids(ret'.rows)]_vars

\* a publish run over two rows: the flair of the first could not be set, the
\* second was posted after it
C25_Witness ==
  /\ ret.op = "post"
  /\ Len(ret.rows) = 2
  /\ ret.arg[3][1] = "flair_fail"
  /\ ret.arg[3][2] = "ok"
  /\ ret.n = 2
  /\ PostedOf(store, ret.rows[1].id)
  /\ PostedOf(store, ret.rows[2].id)

\* ------------------------------------------------------------------------
\* C26
\* ------------------------------------------------------------------------
\* the candidates of the list for which the loop body does not raise
Sound(site, items) ==
  LET Holds(e) == ~Fails(site, e)
  IN  SelectSeq(items, Holds)

\* C26: inside an adapter a candidate that fails (a missing field, a page
\* that cannot be read) does not stop the candidates before and after it:
\* the loop raises nothing and inserts and counts what it would with the
\* failing candidates taken out of the list.
C26_CandidateIsolation ==
  ret.op = "insert_loop"
    => /\ ~ret.raised
       /\ ret.rows = InsertLoop(ret.arg[1], Result(<<>>, 0),
                                Sound(ret.arg[1], ret.arg[2]), clock).store
       /\ ret.n = Len(ret.rows)

\* the weku feed with an entry without link between its two articles: both
\* articles are stored and counted
C26_Witness ==
  /\ ret.op = "insert_loop"
  /\ ret.arg[1] = "weku"
  /\ Len(ret.arg[2]) = 3
  /\ Fails("weku", ret.arg[2][2])
  /\ ~ret.raised
  /\ ret.n = 2
  /\ Len(ret.rows) = 2
\* ------------------------------------------------------------------------
\* C27
\* ------------------------------------------------------------------------
\* the rows a publish run may post: not on a block list
Postable(st) ==
  {i \in 1..Len(st) : ~Blocked(st[i].source, st[i].url, bsources, bdomains)}

\* C27: with publish runs repeated under one limit n >= 1, no new rows and
\* every submission succeeding, every row that is not blocked is posted in
\* the end, whatever blocked rows come before it in the order of selection.
C27_NoStarvation == <>(\A i \in Postable(store) : store[i].posted = 1)

\* ------------------------------------------------------------------------
\* C28
\* ------------------------------------------------------------------------
\* the row may be submitted: it is stored, not posted, and on no block list
MayBeSubmitted(st, id) ==
  \E i \in 1..Len(st) :
    /\ st[i].id = id
    /\ st[i].posted = 0
    /\ ~Blocked(st[i].source, st[i].url, bsources, bdomains)

\* C28: no operation submits a row whose posted flag is already 1 or whose
\* source or domain is blocked; for the publish run and for
\* POST /reddit/post/{id}.
C28_NoSubmitPostedOrBlocked ==
  [][\A id \in 1..MaxRows : sent'[id] > sent[id] => MayBeSubmitted(store, id)]_vars

\* ------------------------------------------------------------------------
\* C29
\* ------------------------------------------------------------------------
\* C29: the limit is an upper bound: for every limit >= 0 the selector
\* returns at most limit rows and a publish run tries at most limit
\* submissions; with limit 0 nothing is selected and nothing is posted.
C29_LimitIsUpperBound ==
  [][/\ (ret'.op = "fetch" /\ ret'.arg[1] # None)
          => Len(ret'.rows) <= ret'.arg[1][1]
     /\ ret'.op = "post"
          => /\ Len(Batch(store, ret').tried) <= ret'.arg[1][1]
             /\ ret'.arg[1][1] = 0 => (ret'.n = 0 /\ store' = store)]_vars

\* ------------------------------------------------------------------------
\* C30
\* ------------------------------------------------------------------------
\* C30: two candidates have the same fingerprint only if their url, headline
\* and published are pairwise equal: the fingerprint is injective on the
\* triple, and moving text across the boundary of two fields changes it.
C30_FingerprintInjective ==
  ret.op = "generate_hash"
    => (ret.rows[1] = ret.rows[2] => ret.arg[1] = ret.arg[2])

====
